---- MODULE Spec2Model ----
(***************************************************************************)
(* A model of kornia-linalg's 3x3 singular value decomposition             *)
(* (crates/kornia-linalg/src/linalg.rs).                                   *)
(*                                                                         *)
(* Numbers.  The program computes in f32.  A model float is an f32 that    *)
(* keeps the sign bit, all 8 exponent bits and the FRAC leading fraction   *)
(* bits of the 23 (so the range, the subnormals, the infinities and the    *)
(* NaNs of f32 are those of the model; only the precision is reduced).     *)
(* A float is the natural number whose binary digits are those bits, i.e.  *)
(* the f32 bit pattern shifted right by 23 - FRAC.  Arithmetic is IEEE     *)
(* 754 round-to-nearest-even on that format.                               *)
(*                                                                         *)
(* Matrices.  glam's Mat3 is a record of three Vec3 (x_axis, y_axis,       *)
(* z_axis), each a record (x, y, z).  The source's component-wise code     *)
(* reads M.x_axis.y as "row 0, column 1"; glam's own products read x_axis  *)
(* as column 0.  Both are modelled as written.                             *)
(***************************************************************************)
EXTENDS Integers, FiniteSets, Sequences, TLC

(***************************************************************************)
(* The f32 format                                                          *)
(***************************************************************************)
FRAC == 12          \* fraction bits kept by a model float
F32_FRAC == 23      \* fraction bits of an f32
F32_BIAS == 127     \* exponent bias of an f32
F32_EMAX == 255     \* the biased exponent of infinities and NaNs

HID == 2^FRAC                      \* the hidden bit of a normal mantissa
SIGN == 2^(8 + FRAC)               \* the sign bit of a model float
DROP == 2^(F32_FRAC - FRAC)        \* f32 bit pattern = model float * DROP
EMIN == 1 - F32_BIAS - FRAC        \* exponent of the lsb of a subnormal

Floats == 0 .. (2 * SIGN - 1)

SignOf(a) == a \div SIGN
MagOf(a) == a % SIGN
BExp(a) == MagOf(a) \div HID
FracOf(a) == a % HID

IsNaN(a) == BExp(a) = F32_EMAX /\ FracOf(a) # 0
IsInf(a) == BExp(a) = F32_EMAX /\ FracOf(a) = 0
IsZero(a) == MagOf(a) = 0
IsFinite(a) == BExp(a) < F32_EMAX

NAN == F32_EMAX * HID + HID \div 2          \* the quiet NaN
INF(s) == s * SIGN + F32_EMAX * HID
ZERO(s) == s * SIGN

\* a finite float is (-1)^SignOf * Mant * 2^Expo
Mant(a) == IF BExp(a) = 0 THEN FracOf(a) ELSE HID + FracOf(a)
Expo(a) == IF BExp(a) = 0 THEN EMIN ELSE BExp(a) - F32_BIAS - FRAC

\* the element of a one-element set: Only({F(v) : v \in {e}}) is F(e), with e computed once
Only(s) == CHOOSE r \in s : TRUE

\* the number of binary digits of m, 0 <= m < 2^31
BitLen(m) == IF m = 0 THEN 0 ELSE CHOOSE k \in 1..31 : 2^(k-1) <= m /\ (k = 31 \/ m < 2^k)

\* the exponent of the last kept digit of m * 2^e: FRAC below the leading one, at least EMIN
LsbExp(m, e) ==
  LET t0 == e + BitLen(m) - 1 - FRAC
  IN IF t0 < EMIN THEN EMIN ELSE t0

\* m / 2^sh (plus a little, when sticky), rounded to nearest, ties to even
Shifted(m, sh, sticky) ==
  IF sh <= 0 THEN m * 2^(-sh)
  ELSE LET q0 == m \div 2^sh
           r == m % 2^sh
           half == 2^(sh-1)
       IN IF r > half \/ (r = half /\ (sticky \/ q0 % 2 = 1)) THEN q0 + 1 ELSE q0

\* the float (-1)^s * q * 2^t, q below 2 * HID; subnormal when q < HID, infinite when too large
Pack(s, q, t) ==
  IF q < HID THEN s * SIGN + q
  ELSE IF t + FRAC + F32_BIAS >= F32_EMAX THEN INF(s)
  ELSE s * SIGN + (t + FRAC + F32_BIAS) * HID + (q - HID)

\* (-1)^s * m * 2^e (plus a little, when sticky), rounded to nearest, ties to even
RoundAt(s, m, e, sticky, t) ==
  IF t - e > 30 THEN ZERO(s)
  ELSE Only({ IF q = 2 * HID THEN Pack(s, HID, t + 1) ELSE Pack(s, q, t) :
              q \in {Shifted(m, t - e, sticky)} })
RoundV(s, m, e, sticky) ==
  IF m = 0 THEN ZERO(s) ELSE Only({ RoundAt(s, m, e, sticky, t) : t \in {LsbExp(m, e)} })
RoundPack(s, m, e, sticky) == Only({ RoundV(s, mm, ee, sticky) : mm \in {m}, ee \in {e} })

NegV(a) == IF SignOf(a) = 1 THEN a - SIGN ELSE a + SIGN
FNeg(a) == Only({ NegV(v) : v \in {a} })
FAbs(a) == MagOf(a)

MulV(a, b) ==
  LET s == (SignOf(a) + SignOf(b)) % 2
  IN IF IsNaN(a) \/ IsNaN(b) THEN NAN
     ELSE IF IsInf(a) \/ IsInf(b)
          THEN (IF IsZero(a) \/ IsZero(b) THEN NAN ELSE INF(s))
     ELSE IF IsZero(a) \/ IsZero(b) THEN ZERO(s)
     ELSE RoundPack(s, Mant(a) * Mant(b), Expo(a) + Expo(b), FALSE)
FMul(a, b) == Only({ MulV(u, v) : u \in {a}, v \in {b} })

\* the sum of two finite non-zero floats, big with the larger exponent
AddAligned(big, small) ==
  LET d == Expo(big) - Expo(small)
      sum == (IF SignOf(big) = 1 THEN -1 ELSE 1) * Mant(big) * 2^d
             + (IF SignOf(small) = 1 THEN -1 ELSE 1) * Mant(small)
  IN IF d > FRAC + 2 THEN big
     ELSE IF sum = 0 THEN ZERO(0)
     ELSE IF sum < 0 THEN RoundPack(1, -sum, Expo(small), FALSE)
     ELSE RoundPack(0, sum, Expo(small), FALSE)
AddV(a, b) ==
  IF IsNaN(a) \/ IsNaN(b) THEN NAN
  ELSE IF IsInf(a) THEN (IF IsInf(b) /\ SignOf(a) # SignOf(b) THEN NAN ELSE a)
  ELSE IF IsInf(b) THEN b
  ELSE IF IsZero(a) /\ IsZero(b) THEN (IF SignOf(a) = 1 /\ SignOf(b) = 1 THEN ZERO(1) ELSE ZERO(0))
  ELSE IF IsZero(a) THEN b
  ELSE IF IsZero(b) THEN a
  ELSE IF Expo(a) >= Expo(b) THEN AddAligned(a, b) ELSE AddAligned(b, a)
FAdd(a, b) == Only({ AddV(u, v) : u \in {a}, v \in {b} })
FSub(a, b) == FAdd(a, FNeg(b))

DivV(a, b) ==
  LET s == (SignOf(a) + SignOf(b)) % 2
      k == 30 - BitLen(Mant(a))
      nn == Mant(a) * 2^k
  IN IF IsNaN(a) \/ IsNaN(b) THEN NAN
     ELSE IF IsInf(a) THEN (IF IsInf(b) THEN NAN ELSE INF(s))
     ELSE IF IsInf(b) THEN ZERO(s)
     ELSE IF IsZero(b) THEN (IF IsZero(a) THEN NAN ELSE INF(s))
     ELSE IF IsZero(a) THEN ZERO(s)
     ELSE RoundPack(s, nn \div Mant(b), Expo(a) - k - Expo(b), nn % Mant(b) # 0)
FDiv(a, b) == Only({ DivV(u, v) : u \in {a}, v \in {b} })

\* the order of the reals; every comparison with a NaN is false, -0 = +0
Key(a) == IF SignOf(a) = 1 THEN - MagOf(a) ELSE MagOf(a)
LtV(a, b) == ~IsNaN(a) /\ ~IsNaN(b) /\ Key(a) < Key(b)
FLt(a, b) == Only({ LtV(u, v) : u \in {a}, v \in {b} })
FGt(a, b) == FLt(b, a)
GeV(a, b) == ~IsNaN(a) /\ ~IsNaN(b) /\ Key(a) >= Key(b)
FGe(a, b) == Only({ GeV(u, v) : u \in {a}, v \in {b} })
EqV(a, b) == ~IsNaN(a) /\ ~IsNaN(b) /\ Key(a) = Key(b)
FEq(a, b) == Only({ EqV(u, v) : u \in {a}, v \in {b} })
\* f32::max: the other operand when one is a NaN
MaxV(a, b) == IF IsNaN(a) THEN b ELSE IF IsNaN(b) THEN a ELSE IF Key(a) < Key(b) THEN b ELSE a
FMax(a, b) == Only({ MaxV(u, v) : u \in {a}, v \in {b} })

\* the float nearest to the decimal literal n / d, and to the integer n
Lit(n, d) ==
  LET s == IF n < 0 THEN 1 ELSE 0
      m == IF n < 0 THEN -n ELSE n
      k == 30 - BitLen(m)
      nn == m * 2^k
  IN RoundPack(s, nn \div d, -k, nn % d # 0)
Int2F(n) == Lit(n, 1)

\* the model float nearest to the f32 with the given (positive) bit pattern
F32(bits) == (bits + DROP \div 2) \div DROP

ONE == Int2F(1)
TWO == Int2F(2)
FOUR == Int2F(4)
HALF == Lit(1, 2)
NEG_HALF == Lit(-1, 2)
NEG_TWO == Int2F(-2)
NEG_EIGHT == Int2F(-8)
ONE_AND_HALF == Lit(3, 2)

(***************************************************************************)
(* Constants of linalg.rs                                                  *)
(***************************************************************************)
GEMMA == F32(1085964922)           \* 5.828427124
CSTAR == F32(1064076126)           \* 0.923879532
SSTAR == F32(1053028117)           \* 0.3826834323
SVD_EPSILON == F32(897988541)      \* 1e-6
JACOBI_STEPS == 12
RSQRT_STEPS == 4
RSQRT1_STEPS == 6
MAGIC == 1597463170                \* 0x5f375a82
MAGIC1 == 1597462942               \* 0x5f37599e
I32_MAX == 2147483647

(***************************************************************************)
(* Fast math primitives                                                    *)
(***************************************************************************)
fdiv(x, y) == FDiv(x, y)

\* x.to_bits() as i32
ToBits(a) == IF a >= SIGN THEN (a - 2 * SIGN) * DROP ELSE a * DROP
\* f32::from_bits(i as u32), the dropped fraction bits truncated
FromBits(i) == IF i < 0 THEN (i \div DROP) + 2 * SIGN ELSE i \div DROP

\* magic - (i >> 1) leaves the range of i32 (i >> 1 is the arithmetic shift)
MagicSubOverflows(magic, i) == (i \div 2) < magic - I32_MAX
\* magic - (i >> 1), wrapped to i32 when it overflows
MagicSub(magic, i) ==
  IF MagicSubOverflows(magic, i)
  THEN ((((magic - 2^30) - (i \div 2)) - 2^30) - 2^30) - 2^30
  ELSE magic - (i \div 2)

\* one refinement: x = x * (x * x * xhalf + 1.5)
NewtonStep(y, xhalf) == FMul(y, FAdd(FMul(FMul(y, y), xhalf), ONE_AND_HALF))
RECURSIVE Newton(_, _, _)
Newton(y, xhalf, k) ==
  IF k = 0 THEN y
  ELSE Only({ Newton(NewtonStep(v, xhalf), xhalf, k - 1) : v \in {y} })

\* the initial guess from the bits of x, refined steps times
RsqrtV(magic, steps, x) ==
  Only({ Newton(FromBits(MagicSub(magic, ToBits(x))), xhalf, steps) :
         xhalf \in {FMul(NEG_HALF, x)} })
rsqrt(x) == Only({ RsqrtV(MAGIC, RSQRT_STEPS, v) : v \in {x} })
rsqrt1(x) == Only({ RsqrtV(MAGIC1, RSQRT1_STEPS, v) : v \in {x} })
accurate_sqrt(x) == fdiv(ONE, rsqrt(x))

\* a faulty variant of cond_swap: it never swaps
cond_swap_Never(c, x, y) == <<x, y>>
cond_swap(c, x, y) == IF c THEN <<y, x>> ELSE <<x, y>>
\* a faulty variant of cond_neg_swap: it swaps without negating
cond_neg_swap_NoNeg(c, x, y) == IF c THEN <<y, x>> ELSE <<x, y>>
cond_neg_swap(c, x, y) == IF c THEN <<y, FNeg(x)>> ELSE <<x, y>>

dist2(x, y, z) == FAdd(FMul(x, x), FAdd(FMul(y, y), FMul(z, z)))

(***************************************************************************)
(* Value types                                                             *)
(***************************************************************************)
Vec3(x, y, z) == [x |-> x, y |-> y, z |-> z]
Mat3(xa, ya, za) == [x_axis |-> xa, y_axis |-> ya, z_axis |-> za]
Mat3_ZERO == Mat3(Vec3(0, 0, 0), Vec3(0, 0, 0), Vec3(0, 0, 0))
Axes == {"x_axis", "y_axis", "z_axis"}
Comps == {"x", "y", "z"}

\* glam: Mat3 is column-major, x_axis is the first column
transpose(M) ==
  Mat3(Vec3(M.x_axis.x, M.y_axis.x, M.z_axis.x),
       Vec3(M.x_axis.y, M.y_axis.y, M.z_axis.y),
       Vec3(M.x_axis.z, M.y_axis.z, M.z_axis.z))
mul_vec3(M, v) ==
  [c \in Comps |-> FAdd(FAdd(FMul(M.x_axis[c], v.x), FMul(M.y_axis[c], v.y)), FMul(M.z_axis[c], v.z))]
MulMatV(M, N) == Mat3(mul_vec3(M, N.x_axis), mul_vec3(M, N.y_axis), mul_vec3(M, N.z_axis))
mul_mat3(M, N) == Only({ MulMatV(m, nn) : m \in {M}, nn \in {N} })

Symmetric3x3(a, b, c, d, e, f) ==
  [m_00 |-> a, m_10 |-> b, m_11 |-> c, m_20 |-> d, m_21 |-> e, m_22 |-> f]
from_mat3x3(mat) ==
  Symmetric3x3(mat.x_axis.x, mat.x_axis.y, mat.y_axis.y, mat.z_axis.x, mat.z_axis.y, mat.z_axis.z)

Givens(ch, sh) == [ch |-> ch, sh |-> sh]

\* IndexedQuat: index 0, 1, 2, 3 is x, y, z, w; any other index panics
QuatIndexOk(i) == i \in 0..3
QuatField(i) == CASE i = 0 -> "x" [] i = 1 -> "y" [] i = 2 -> "z" [] i = 3 -> "w"
QGet(q, i) == q[QuatField(i)]
QSet(q, i, v) == [q EXCEPT ![QuatField(i)] = v]
Quat_IDENTITY == [x |-> ZERO(0), y |-> ZERO(0), z |-> ZERO(0), w |-> ONE]

quaternion_to_matrix(q) ==
  LET w == q.w
      x == q.x
      y == q.y
      z == q.z
  IN Mat3(Vec3(FSub(ONE, FMul(TWO, FAdd(FMul(y, y), FMul(z, z)))),
               FMul(TWO, FSub(FMul(x, y), FMul(w, z))),
               FMul(TWO, FAdd(FMul(x, z), FMul(w, y)))),
          Vec3(FMul(TWO, FAdd(FMul(x, y), FMul(w, z))),
               FSub(ONE, FMul(TWO, FAdd(FMul(x, x), FMul(z, z)))),
               FMul(TWO, FSub(FMul(y, z), FMul(w, x)))),
          Vec3(FMul(TWO, FSub(FMul(x, z), FMul(w, y))),
               FMul(TWO, FAdd(FMul(y, z), FMul(w, x))),
               FSub(ONE, FMul(TWO, FAdd(FMul(x, x), FMul(y, y))))))

(***************************************************************************)
(* Givens rotation estimator                                               *)
(***************************************************************************)
\* the candidate of approximate_givens_quaternion, its test and its factor
GivensCandidate(A) == Givens(FMul(TWO, FSub(A.m_00, A.m_11)), A.m_10)
GivensTest(g) == FLt(FMul(FMul(GEMMA, g.sh), g.sh), FMul(g.ch, g.ch))
GivensArg(g) == FAdd(FMul(g.ch, g.ch), FMul(g.sh, g.sh))

\* the pair returned for candidate g and normalisation factor w
GivensSelect(g, w) ==
  LET b == IF IsNaN(w) THEN FALSE ELSE GivensTest(g)
  IN Givens(IF b THEN FMul(w, g.ch) ELSE CSTAR, IF b THEN FMul(w, g.sh) ELSE SSTAR)
GivensNormalise(g) == Only({ GivensSelect(g, w) : w \in {rsqrt(GivensArg(g))} })
approximate_givens_quaternion(A) == Only({ GivensNormalise(g) : g \in {GivensCandidate(A)} })

(***************************************************************************)
(* Jacobi conjugation                                                      *)
(***************************************************************************)
\* the re-arrangement of the six stored entries that ends jacobi_conjugation, after
\* a faulty variant of it in which m_20 and m_21 take each other's source
RearrangeV_Crossed(S) ==
  [m_00 |-> S.m_11, m_10 |-> S.m_21, m_11 |-> S.m_22,
   m_20 |-> S.m_20, m_21 |-> S.m_10, m_22 |-> S.m_00]
RearrangeV(S) ==
  [m_00 |-> S.m_11, m_10 |-> S.m_21, m_11 |-> S.m_22,
   m_20 |-> S.m_10, m_21 |-> S.m_20, m_22 |-> S.m_00]
Rearrange(S) == Only({ RearrangeV(v) : v \in {S} })

\* S = Q'*S*Q for the rotation with cosine a and sine b
ConjugateV(S, a, b, nb) ==
     [m_00 |-> FAdd(FMul(a, FAdd(FMul(a, S.m_00), FMul(b, S.m_10))),
                    FMul(b, FAdd(FMul(a, S.m_10), FMul(b, S.m_11)))),
      m_10 |-> FAdd(FMul(a, FAdd(FMul(nb, S.m_00), FMul(a, S.m_10))),
                    FMul(b, FAdd(FMul(nb, S.m_10), FMul(a, S.m_11)))),
      m_11 |-> FAdd(FMul(nb, FAdd(FMul(nb, S.m_00), FMul(a, S.m_10))),
                    FMul(a, FAdd(FMul(nb, S.m_10), FMul(a, S.m_11)))),
      m_20 |-> FAdd(FMul(a, S.m_20), FMul(b, S.m_21)),
      m_21 |-> FAdd(FMul(nb, S.m_20), FMul(a, S.m_21)),
      m_22 |-> S.m_22]
Conjugate(S, a, b) == Only({ ConjugateV(S, u, v, FNeg(v)) : u \in {a}, v \in {b} })

\* the accesses of jacobi_conjugation to q and to the 3-entry tmp, in order
Accesses(x, y, z) ==
  << <<"q", 0>>, <<"q", 1>>, <<"q", 2>>, <<"q", 3>>, <<"q", 3>>,
     <<"q", z>>, <<"q", z>>,
     <<"q", 3>>, <<"tmp", z>>, <<"q", 3>>,
     <<"q", x>>, <<"tmp", y>>, <<"q", x>>,
     <<"q", y>>, <<"tmp", x>>, <<"q", y>> >>
AccessOk(a) == IF a[1] = "q" THEN QuatIndexOk(a[2]) ELSE a[2] \in 0..2
\* the panic of the first access out of range, "none" when all are in range
AccessPanic(x, y, z) ==
  LET acc == Accesses(x, y, z)
      bad == {i \in 1..Len(acc) : ~AccessOk(acc[i])}
  IN IF bad = {} THEN "none"
     ELSE LET first == CHOOSE i \in bad : \A j \in bad : i <= j
          IN IF acc[first][1] = "q" THEN "quat_index" ELSE "tmp_index"

\* the cumulative rotation after one conjugation with rotation g on axes (x, y, z)
AccumulateV(x, y, z, ch, sh, tmp, q) ==
  LET q1 == QSet(q, z, FAdd(FMul(QGet(q, z), ch), sh))
      q2 == QSet(q1, 3, FSub(FMul(QGet(q1, 3), ch), tmp[z + 1]))
      q3 == QSet(q2, x, FAdd(FMul(QGet(q2, x), ch), tmp[y + 1]))
  IN QSet(q3, y, FSub(FMul(QGet(q3, y), ch), tmp[x + 1]))
Accumulate(x, y, z, g, q) ==
  Only({ AccumulateV(x, y, z, g.ch, sh, tmp, q) :
         tmp \in {<<FMul(QGet(q, 0), g.sh), FMul(QGet(q, 1), g.sh), FMul(QGet(q, 2), g.sh)>>},
         sh \in {FMul(g.sh, QGet(q, 3))} })

\* the step with rotation g: scale, a and b, the conjugation, the re-arrangement
JacobiWith(x, y, z, S, q, g, scale) ==
  LET a == FMul(FSub(FMul(g.ch, g.ch), FMul(g.sh, g.sh)), scale)
      b == FMul(FMul(FMul(TWO, g.sh), g.ch), scale)
  IN [S |-> Rearrange(Conjugate(S, a, b)), q |-> Accumulate(x, y, z, g, q)]
JacobiScaled(x, y, z, S, q, g) ==
  Only({ JacobiWith(x, y, z, S, q, g, scale) :
         scale \in {FDiv(ONE, FAdd(FMul(g.ch, g.ch), FMul(g.sh, g.sh)))} })
jacobi_conjugation(x, y, z, S, q) ==
  Only({ JacobiScaled(x, y, z, S, q, g) : g \in {approximate_givens_quaternion(S)} })

\* the axis triples of one sweep of jacobi_eigenanalysis, in order
Triples == << <<0, 1, 2>>, <<1, 2, 0>>, <<2, 0, 1>> >>

(***************************************************************************)
(* Singular-value sorter                                                   *)
(***************************************************************************)
\* the squared norm of "column" c of B, as sort_singular_values reads it
ColNorm2(B, c) == dist2(B.x_axis[c], B.y_axis[c], B.z_axis[c])
\* cond_neg_swap on components i and j of a vector, and of every axis of M
NegSwapVec(c, v, i, j) ==
  LET p == cond_neg_swap(c, v[i], v[j]) IN [v EXCEPT ![i] = p[1], ![j] = p[2]]
NegSwapCols(c, M, i, j) == [a \in Axes |-> NegSwapVec(c, M[a], i, j)]

(***************************************************************************)
(* QR decomposition                                                        *)
(***************************************************************************)
\* qr_givens_quaternion: the argument of its square root, and g before it is normalised
QrRho2(a1, a2) == FAdd(FMul(a1, a1), FMul(a2, a2))
QrCandidateV(a1, a2, rho) ==
  LET epsilon == SVD_EPSILON
      p == cond_swap(FLt(a1, ZERO(0)),
                     IF FGt(rho, epsilon) THEN a2 ELSE ZERO(0),
                     FAdd(FAbs(a1), FMax(rho, epsilon)))
  IN Givens(p[2], p[1])
QrCandidate(a1, a2) ==
  Only({ QrCandidateV(a1, a2, rho) : rho \in {accurate_sqrt(QrRho2(a1, a2))} })
QrNormalise(g) == Only({ Givens(FMul(g.ch, w), FMul(g.sh, w)) : w \in {rsqrt(GivensArg(g))} })
qr_givens_quaternion(a1, a2) == Only({ QrNormalise(g) : g \in {QrCandidate(a1, a2)} })

\* a and b of a rotation g: a = -2 sh^2 + 1, b = 2 ch sh
RotA(g) == FAdd(FMul(FMul(NEG_TWO, g.sh), g.sh), ONE)
RotB(g) == FMul(FMul(TWO, g.ch), g.sh)
\* a * u + b * v, component by component
CombV(a, u, b, v) == [c \in Comps |-> FAdd(FMul(a, u[c]), FMul(b, v[c]))]
Comb(a, u, b, v) == Only({ CombV(aa, u, bb, v) : aa \in {a}, bb \in {b} })

\* the three rotations: Q' * B on rows (0,1), then (0,2), then (1,2)
QrRot1(B, g1) ==
  LET a == RotA(g1)
      b == RotB(g1)
  IN Mat3(Comb(a, B.x_axis, b, B.y_axis), Comb(FNeg(b), B.x_axis, a, B.y_axis), B.z_axis)
\* a faulty variant of the second rotation: it mixes rows 0 and 1 into rows 0 and 2
QrRot2_WrongRows(R, g2) ==
  LET a == RotA(g2)
      b == RotB(g2)
  IN Mat3(Comb(a, R.x_axis, b, R.y_axis), R.y_axis, Comb(FNeg(b), R.x_axis, a, R.y_axis))
QrRot2(R, g2) ==
  LET a == RotA(g2)
      b == RotB(g2)
  IN Mat3(Comb(a, R.x_axis, b, R.z_axis), R.y_axis, Comb(FNeg(b), R.x_axis, a, R.z_axis))
QrRot3(B, g3) ==
  LET a == RotA(g3)
      b == RotB(g3)
  IN Mat3(B.x_axis, Comb(a, B.y_axis, b, B.z_axis), Comb(FNeg(b), B.y_axis, a, B.z_axis))

\* products of floats, left to right as the source writes them
RECURSIVE Prod(_)
Prod(s) ==
  Only({ IF Len(t) = 1 THEN t[1] ELSE FMul(Prod(SubSeq(t, 1, Len(t) - 1)), t[Len(t)]) :
         t \in {s} })

\* the cumulative rotation Q = Q1 * Q2 * Q3 in closed form, given sh12, sh22, sh32
QrQV(g1, g2, g3, sh12, sh22, sh32) ==
  Mat3(Vec3(FMul(sh12, sh22),
            FAdd(Prod(<<FOUR, g2.ch, g3.ch, sh12, g2.sh, g3.sh>>), Prod(<<TWO, g1.ch, g1.sh, sh32>>)),
            FSub(Prod(<<FOUR, g1.ch, g3.ch, g1.sh, g3.sh>>), Prod(<<TWO, g2.ch, sh12, g2.sh, sh32>>))),
       Vec3(Prod(<<NEG_TWO, g1.ch, g1.sh, sh22>>),
            FAdd(Prod(<<NEG_EIGHT, g1.ch, g2.ch, g3.ch, g1.sh, g2.sh, g3.sh>>), FMul(sh12, sh32)),
            FAdd(Prod(<<NEG_TWO, g3.ch, g3.sh>>),
                 FMul(FMul(FOUR, g1.sh),
                      FAdd(Prod(<<g3.ch, g1.sh, g3.sh>>), Prod(<<g1.ch, g2.ch, g2.sh, sh32>>))))),
       Vec3(Prod(<<TWO, g2.ch, g2.sh>>),
            Prod(<<NEG_TWO, g3.ch, sh22, g3.sh>>),
            FMul(sh22, sh32)))
QrQ(g1, g2, g3) ==
  Only({ QrQV(g1, g2, g3, sh2[1], sh2[2], sh2[3]) :
         sh2 \in {<<FMul(TWO, FSub(FMul(g1.sh, g1.sh), HALF)),
                    FMul(TWO, FSub(FMul(g2.sh, g2.sh), HALF)),
                    FMul(TWO, FSub(FMul(g3.sh, g3.sh), HALF))>>} })

(***************************************************************************)
(* The state                                                               *)
(***************************************************************************)
VARIABLES
  entry,       \* the exposed operation the caller entered: "svd", "sort", "qr", "givens", "ops"
  checked,     \* the build checks integer overflow (debug) or wraps (release)
  pc,          \* the position in the operation
  panic,       \* "none", or the panic that ended execution
  A,           \* svd: the input matrix
  S,           \* the symmetric matrix being diagonalised
  q,           \* the rotation accumulator
  n,           \* jacobi_eigenanalysis: conjugation steps done
  slot,        \* the entry of the symmetric matrix each storage slot holds
  lastTriple,  \* the axis triple of the last conjugation step
  V,           \* svd: the eigenvector matrix
  Vs,          \* sort_singular_values: the matrix passed as V
  B,           \* the product matrix, sorted and then reduced
  B0, V0,      \* sort_singular_values: B and V as passed
  rho,         \* sort_singular_values: rho1, rho2, rho3
  swaps,       \* sort_singular_values: the condition c of each step so far
  R, Qm,       \* qr_decomposition: R and Q
  gs,          \* qr_decomposition: the rotations g1, g2, g3 so far
  out,         \* svd: the SVDSet returned
  gout,        \* approximate_givens_quaternion: the Givens returned
  res,         \* the value returned by a primitive
  calls        \* operations called so far by the caller of the exposed operations

vars == <<entry, checked, pc, panic, A, S, q, n, slot, lastTriple, V, Vs, B, B0, V0,
          rho, swaps, R, Qm, gs, out, gout, res, calls>>

\* a Mat3 of small integers, given by its three axes
MatI(xa, ya, za) ==
  Mat3(Vec3(Int2F(xa[1]), Int2F(xa[2]), Int2F(xa[3])),
       Vec3(Int2F(ya[1]), Int2F(ya[2]), Int2F(ya[3])),
       Vec3(Int2F(za[1]), Int2F(za[2]), Int2F(za[3])))
Mat3_IDENTITY == MatI(<<1, 0, 0>>, <<0, 1, 0>>, <<0, 0, 1>>)
Sym_ZERO == Symmetric3x3(0, 0, 0, 0, 0, 0)
SlotIdentity ==
  [m_00 |-> "m_00", m_10 |-> "m_10", m_11 |-> "m_11",
   m_20 |-> "m_20", m_21 |-> "m_21", m_22 |-> "m_22"]
NoGivens == Givens(0, 0)
NoSVD == [U |-> Mat3_ZERO, S |-> Mat3_ZERO, V |-> Mat3_ZERO]
NoRho == [rho1 |-> 0, rho2 |-> 0, rho3 |-> 0]

\* the state in which the caller enters operation e at position p
Enter(e, p, a, s, b, v) ==
  /\ entry = e /\ pc = p /\ panic = "none"
  /\ A = a /\ S = s /\ B = b /\ Vs = v
  /\ q = Quat_IDENTITY /\ n = 0 /\ slot = SlotIdentity /\ lastTriple = <<>>
  /\ V = Mat3_ZERO /\ B0 = Mat3_ZERO /\ V0 = Mat3_ZERO
  /\ rho = NoRho /\ swaps = <<>>
  /\ R = Mat3_ZERO /\ Qm = Mat3_ZERO /\ gs = <<>>
  /\ out = NoSVD /\ gout = NoGivens /\ res = 0 /\ calls = 0

\* the integer subtraction of rsqrt panics in a build that checks overflow
RsqrtPanics(x) == checked /\ MagicSubOverflows(MAGIC, ToBits(x))

Panic(why) ==
  /\ pc' = "panic"
  /\ panic' = why

(***************************************************************************)
(* svd                                                                     *)
(***************************************************************************)
\* jacobi_eigenanalysis(Symmetric3x3::from_mat3x3(&(A.transpose().mul_mat3(&A))))
SvdStart ==
  /\ pc = "svd"
  /\ S' = from_mat3x3(mul_mat3(transpose(A), A))
  /\ q' = Quat_IDENTITY
  /\ n' = 0
  /\ pc' = "jacobi"
  /\ UNCHANGED <<entry, checked, panic, A, slot, lastTriple, V, Vs, B, B0, V0, rho, swaps,
                 R, Qm, gs, out, gout, res, calls>>

\* one jacobi_conjugation of the loop of jacobi_eigenanalysis
JacobiStep ==
  /\ pc = "jacobi"
  /\ n < 3 * JACOBI_STEPS
  /\ LET t == Triples[(n % 3) + 1]
     IN /\ lastTriple' = t
        /\ n' = n + 1
        /\ IF RsqrtPanics(GivensArg(GivensCandidate(S)))
           THEN Panic("rsqrt_overflow") /\ UNCHANGED <<S, q, slot>>
           ELSE IF AccessPanic(t[1], t[2], t[3]) # "none"
           THEN Panic(AccessPanic(t[1], t[2], t[3])) /\ UNCHANGED <<S, q, slot>>
           ELSE \E r \in {jacobi_conjugation(t[1], t[2], t[3], S, q)} :
                  /\ S' = r.S
                  /\ q' = r.q
                  /\ slot' = Rearrange(slot)
                  /\ UNCHANGED <<pc, panic>>
  /\ UNCHANGED <<entry, checked, A, V, Vs, B, B0, V0, rho, swaps, R, Qm, gs, out, gout, res, calls>>

\* return quaternion_to_matrix(&q); let mut B = A.mul_mat3(&V);
SvdProduct ==
  /\ pc = "jacobi"
  /\ n = 3 * JACOBI_STEPS
  /\ V' = quaternion_to_matrix(q)
  /\ B' = mul_mat3(A, V')
  /\ pc' = "callsort"
  /\ UNCHANGED <<entry, checked, panic, A, S, q, n, slot, lastTriple, Vs, B0, V0, rho, swaps,
                 R, Qm, gs, out, gout, res, calls>>

\* sort_singular_values(&mut B, &mut V.clone()): the sorter is given a copy of V
SvdCallSort ==
  /\ pc = "callsort"
  /\ Vs' = V
  /\ pc' = "sort"
  /\ UNCHANGED <<entry, checked, panic, A, S, q, n, slot, lastTriple, V, B, B0, V0, rho, swaps,
                 R, Qm, gs, out, gout, res, calls>>

\* SVDSet { U: qr.Q, S: qr.R, V }
SvdReturn ==
  /\ pc = "ret"
  /\ out' = [U |-> Qm, S |-> R, V |-> V]
  /\ pc' = "done"
  /\ UNCHANGED <<entry, checked, panic, A, S, q, n, slot, lastTriple, V, Vs, B, B0, V0, rho, swaps,
                 R, Qm, gs, gout, res, calls>>

(***************************************************************************)
(* sort_singular_values                                                    *)
(***************************************************************************)
SortBegin ==
  /\ pc = "sort"
  /\ rho' = [rho1 |-> ColNorm2(B, "x"), rho2 |-> ColNorm2(B, "y"), rho3 |-> ColNorm2(B, "z")]
  /\ B0' = B
  /\ V0' = Vs
  /\ swaps' = <<>>
  /\ pc' = "sort01"
  /\ UNCHANGED <<entry, checked, panic, A, S, q, n, slot, lastTriple, V, Vs, B,
                 R, Qm, gs, out, gout, res, calls>>

\* c = rho1 < rho2; swap columns 0 and 1 of B and V; cond_swap(c, rho1, rho2)
Sort01 ==
  /\ pc = "sort01"
  /\ LET c == FLt(rho.rho1, rho.rho2)
         p == cond_swap(c, rho.rho1, rho.rho2)
     IN /\ B' = NegSwapCols(c, B, "x", "y")
        /\ Vs' = NegSwapCols(c, Vs, "x", "y")
        /\ rho' = [rho EXCEPT !.rho1 = p[1], !.rho2 = p[2]]
        /\ swaps' = Append(swaps, c)
  /\ pc' = "sort02"
  /\ UNCHANGED <<entry, checked, panic, A, S, q, n, slot, lastTriple, V, B0, V0,
                 R, Qm, gs, out, gout, res, calls>>

\* c = rho1 < rho3; swap columns 0 and 2 of B and V; cond_swap(c, rho1, rho3)
Sort02 ==
  /\ pc = "sort02"
  /\ LET c == FLt(rho.rho1, rho.rho3)
         p == cond_swap(c, rho.rho1, rho.rho3)
     IN /\ B' = NegSwapCols(c, B, "x", "z")
        /\ Vs' = NegSwapCols(c, Vs, "x", "z")
        /\ rho' = [rho EXCEPT !.rho1 = p[1], !.rho3 = p[2]]
        /\ swaps' = Append(swaps, c)
  /\ pc' = "sort12"
  /\ UNCHANGED <<entry, checked, panic, A, S, q, n, slot, lastTriple, V, B0, V0,
                 R, Qm, gs, out, gout, res, calls>>

\* c = rho2 < rho3; swap columns 1 and 2 of B and V
Sort12 ==
  /\ pc = "sort12"
  /\ LET c == FLt(rho.rho2, rho.rho3)
     IN /\ B' = NegSwapCols(c, B, "y", "z")
        /\ Vs' = NegSwapCols(c, Vs, "y", "z")
        /\ swaps' = Append(swaps, c)
  /\ pc' = IF entry = "svd" THEN "qr1" ELSE "done"
  /\ UNCHANGED <<entry, checked, panic, A, S, q, n, slot, lastTriple, V, B0, V0, rho,
                 R, Qm, gs, out, gout, res, calls>>

(***************************************************************************)
(* qr_decomposition                                                        *)
(***************************************************************************)
\* one of the two rsqrt calls of qr_givens_quaternion(a1, a2) panics
QrPanics(a1, a2) ==
  \/ RsqrtPanics(QrRho2(a1, a2))
  \/ RsqrtPanics(GivensArg(QrCandidate(a1, a2)))

\* first rotation, from B into R
Qr1 ==
  /\ pc = "qr1"
  /\ IF QrPanics(B.x_axis.x, B.y_axis.x)
     THEN Panic("rsqrt_overflow") /\ UNCHANGED <<R, gs>>
     ELSE \E g1 \in {qr_givens_quaternion(B.x_axis.x, B.y_axis.x)} :
             /\ R' = QrRot1(B, g1)
             /\ gs' = <<g1>>
             /\ pc' = "qr2"
             /\ UNCHANGED panic
  /\ UNCHANGED <<entry, checked, A, S, q, n, slot, lastTriple, V, Vs, B, B0, V0, rho, swaps,
                 Qm, out, gout, res, calls>>

\* second rotation, from R into B
Qr2 ==
  /\ pc = "qr2"
  /\ IF QrPanics(R.x_axis.x, R.z_axis.x)
     THEN Panic("rsqrt_overflow") /\ UNCHANGED <<B, gs>>
     ELSE \E g2 \in {qr_givens_quaternion(R.x_axis.x, R.z_axis.x)} :
             /\ B' = QrRot2(R, g2)
             /\ gs' = Append(gs, g2)
             /\ pc' = "qr3"
             /\ UNCHANGED panic
  /\ UNCHANGED <<entry, checked, A, S, q, n, slot, lastTriple, V, Vs, B0, V0, rho, swaps,
                 R, Qm, out, gout, res, calls>>

\* third rotation, from B into R, and the closed form of Q
Qr3 ==
  /\ pc = "qr3"
  /\ IF QrPanics(B.y_axis.y, B.z_axis.y)
     THEN Panic("rsqrt_overflow") /\ UNCHANGED <<R, Qm, gs>>
     ELSE \E g3 \in {qr_givens_quaternion(B.y_axis.y, B.z_axis.y)} :
             /\ R' = QrRot3(B, g3)
             /\ Qm' = QrQ(gs[1], gs[2], g3)
             /\ gs' = Append(gs, g3)
             /\ pc' = IF entry = "svd" THEN "ret" ELSE "done"
             /\ UNCHANGED panic
  /\ UNCHANGED <<entry, checked, A, S, q, n, slot, lastTriple, V, Vs, B, B0, V0, rho, swaps,
                 out, gout, res, calls>>

(***************************************************************************)
(* Specification of svd                                                    *)
(***************************************************************************)
SvdInputs ==
  { MatI(<<1, 0, 0>>, <<0, 2, 0>>, <<0, 0, 3>>),
    MatI(<<1, 0, 0>>, <<0, 2, 0>>, <<0, 0, -3>>),
    MatI(<<3, 0, 0>>, <<0, 2, 0>>, <<0, 0, 1>>),
    MatI(<<1, 0, 0>>, <<0, 1, 0>>, <<0, 0, 1>>),
    MatI(<<1, 1, 0>>, <<0, 1, 0>>, <<0, 0, 1>>),
    MatI(<<2, 1, 0>>, <<1, 3, 1>>, <<0, 1, 4>>),
    MatI(<<2, 1, 0>>, <<2, 2, -1>>, <<2, 2, 2>>),
    MatI(<<0, 0, 0>>, <<0, 0, 0>>, <<0, 0, 0>>) }

Init ==
  \E a \in SvdInputs, c \in BOOLEAN :
    /\ checked = c
    /\ Enter("svd", "svd", a, Sym_ZERO, Mat3_ZERO, Mat3_ZERO)

Next ==
  \/ SvdStart
  \/ JacobiStep
  \/ SvdProduct
  \/ SvdCallSort
  \/ SortBegin
  \/ Sort01
  \/ Sort02
  \/ Sort12
  \/ Qr1
  \/ Qr2
  \/ Qr3
  \/ SvdReturn

Spec == Init /\ [][Next]_vars
(***************************************************************************)
(* Specification of sort_singular_values, called on its own                *)
(***************************************************************************)
\* the matrix whose "columns" (as the sorter reads them) are c0, c1, c2
FromCols(c0, c1, c2) == MatI(<<c0[1], c1[1], c2[1]>>, <<c0[2], c1[2], c2[2]>>, <<c0[3], c1[3], c2[3]>>)
SortCols == { <<1, 0, 0>>, <<0, 2, 0>>, <<0, 0, 3>>, <<1, 1, 0>>, <<-2, 0, 1>>, <<0, 0, 0>> }
SortVs == { Mat3_IDENTITY, MatI(<<1, 2, 3>>, <<4, 5, 6>>, <<7, 8, 9>>) }

InitSort ==
  \E c0 \in SortCols, c1 \in SortCols, c2 \in SortCols, v \in SortVs, c \in BOOLEAN :
    /\ checked = c
    /\ Enter("sort", "sort", Mat3_ZERO, Sym_ZERO, FromCols(c0, c1, c2), v)

NextSort ==
  \/ SortBegin
  \/ Sort01
  \/ Sort02
  \/ Sort12

SpecSort == InitSort /\ [][NextSort]_vars

(***************************************************************************)
(* Specification of qr_decomposition, called on its own                    *)
(***************************************************************************)
QrAxes == { <<1, 0, 0>>, <<0, 2, 0>>, <<0, 0, 3>>, <<1, 2, 2>>, <<-2, 1, 0>>, <<0, -1, 1>>, <<0, 0, 0>> }

InitQr ==
  \E xa \in QrAxes, ya \in QrAxes, za \in QrAxes, c \in BOOLEAN :
    /\ checked = c
    /\ Enter("qr", "qr1", Mat3_ZERO, Sym_ZERO, MatI(xa, ya, za), Mat3_ZERO)

NextQr ==
  \/ Qr1
  \/ Qr2
  \/ Qr3

SpecQr == InitQr /\ [][NextQr]_vars

(***************************************************************************)
(* Specification of approximate_givens_quaternion, called on its own       *)
(***************************************************************************)
ApproxGivens ==
  /\ pc = "givens"
  /\ IF RsqrtPanics(GivensArg(GivensCandidate(S)))
     THEN Panic("rsqrt_overflow") /\ UNCHANGED gout
     ELSE /\ gout' = approximate_givens_quaternion(S)
          /\ pc' = "done"
          /\ UNCHANGED panic
  /\ UNCHANGED <<entry, checked, A, S, q, n, slot, lastTriple, V, Vs, B, B0, V0, rho, swaps,
                 R, Qm, gs, out, res, calls>>

HUGE == F32(1621981420)            \* 1e20
GivensVals == { Int2F(0), Int2F(1), Int2F(-1), Int2F(2), Int2F(3), Lit(1, 2), HUGE }

InitGivens ==
  \E a \in GivensVals, b \in GivensVals, d \in GivensVals, c \in BOOLEAN :
    /\ checked = c
    /\ Enter("givens", "givens", Mat3_ZERO,
             Symmetric3x3(a, b, d, Int2F(0), Int2F(0), Int2F(0)), Mat3_ZERO, Mat3_ZERO)

NextGivens == ApproxGivens

SpecGivens == InitGivens /\ [][NextGivens]_vars

(***************************************************************************)
(* Specification of the exposed operations, called with any arguments      *)
(***************************************************************************)
MaxCalls == 2       \* calls a caller makes
MaxIndex == 4       \* the largest index a caller passes

\* jacobi_conjugation(x, y, z, &mut S, &mut q)
OpJacobiConjugation ==
  /\ pc = "ops"
  /\ calls < MaxCalls
  /\ calls' = calls + 1
  /\ \E x \in 0..MaxIndex, y \in 0..MaxIndex, z \in 0..MaxIndex :
       /\ lastTriple' = <<x, y, z>>
       /\ IF RsqrtPanics(GivensArg(GivensCandidate(S)))
          THEN Panic("rsqrt_overflow") /\ UNCHANGED <<S, q, slot>>
          ELSE IF AccessPanic(x, y, z) # "none"
          THEN Panic(AccessPanic(x, y, z)) /\ UNCHANGED <<S, q, slot>>
          ELSE \E r \in {jacobi_conjugation(x, y, z, S, q)} :
                 /\ S' = r.S
                 /\ q' = r.q
                 /\ slot' = Rearrange(slot)
                 /\ UNCHANGED <<pc, panic>>
  /\ UNCHANGED <<entry, checked, A, n, V, Vs, B, B0, V0, rho, swaps, R, Qm, gs, out, gout, res>>

RsqrtArgs == { Int2F(0), Int2F(1), Int2F(36), Lit(1, 10), Lit(-1, 10), Int2F(-1), Int2F(-4), HUGE }

\* rsqrt(x)
OpRsqrt ==
  /\ pc = "ops"
  /\ calls < MaxCalls
  /\ calls' = calls + 1
  /\ \E x \in RsqrtArgs :
       IF checked /\ MagicSubOverflows(MAGIC, ToBits(x))
       THEN Panic("rsqrt_overflow") /\ UNCHANGED res
       ELSE res' = rsqrt(x) /\ UNCHANGED <<pc, panic>>
  /\ UNCHANGED <<entry, checked, A, S, q, n, slot, lastTriple, V, Vs, B, B0, V0, rho, swaps,
                 R, Qm, gs, out, gout>>

\* rsqrt1(x)
OpRsqrt1 ==
  /\ pc = "ops"
  /\ calls < MaxCalls
  /\ calls' = calls + 1
  /\ \E x \in RsqrtArgs :
       IF checked /\ MagicSubOverflows(MAGIC1, ToBits(x))
       THEN Panic("rsqrt_overflow") /\ UNCHANGED res
       ELSE res' = rsqrt1(x) /\ UNCHANGED <<pc, panic>>
  /\ UNCHANGED <<entry, checked, A, S, q, n, slot, lastTriple, V, Vs, B, B0, V0, rho, swaps,
                 R, Qm, gs, out, gout>>

\* q[i]
OpQuatIndex ==
  /\ pc = "ops"
  /\ calls < MaxCalls
  /\ calls' = calls + 1
  /\ \E i \in 0..(MaxIndex + 1) :
       IF QuatIndexOk(i)
       THEN res' = QGet(q, i) /\ UNCHANGED <<pc, panic>>
       ELSE Panic("quat_index") /\ UNCHANGED res
  /\ UNCHANGED <<entry, checked, A, S, q, n, slot, lastTriple, V, Vs, B, B0, V0, rho, swaps,
                 R, Qm, gs, out, gout>>

OpsInputs ==
  { from_mat3x3(MatI(<<1, 0, 0>>, <<0, 4, 0>>, <<0, 0, 9>>)),
    from_mat3x3(MatI(<<5, 4, 2>>, <<4, 14, 6>>, <<2, 6, 17>>)) }

InitOps ==
  \E s \in OpsInputs, c \in BOOLEAN :
    /\ checked = c
    /\ Enter("ops", "ops", Mat3_ZERO, s, Mat3_ZERO, Mat3_ZERO)

NextOps ==
  \/ OpJacobiConjugation
  \/ OpRsqrt
  \/ OpRsqrt1
  \/ OpQuatIndex

SpecOps == InitOps /\ [][NextOps]_vars
(***************************************************************************)
(* Properties                                                              *)
(***************************************************************************)
\* tolerances: of the decomposition, at the precision the floats keep, and of a rotation
TOL == Lit(1, 16)
QTOL == Lit(1, 64)
Near(a, b) == FLt(FAbs(FSub(a, b)), TOL)
MatNear(M, N) == \A a \in Axes, c \in Comps : Near(M[a][c], N[a][c])
NearZero(a) == FLt(FAbs(a), QTOL)

\* C9: jacobi_eigenanalysis ends after exactly 36 conjugation steps, whatever the input: the
\* steps apply the triples (0,1,2), (1,2,0), (2,0,1) in that order, the loop is left only
\* with 36 steps done, and after each group of three steps every stored entry is back in
\* its original slot.
C9_ThirtySixSteps ==
  /\ n <= 36
  /\ pc # "panic"
  /\ (pc \notin {"svd", "jacobi"} => n = 36)
  /\ (n > 0 => lastTriple = << <<0, 1, 2>>, <<1, 2, 0>>, <<2, 0, 1>> >>[((n - 1) % 3) + 1])
  /\ (n % 3 = 0 => slot = SlotIdentity)
C9_Witness ==
  /\ pc = "callsort" /\ n = 36 /\ slot = SlotIdentity
  /\ ~IsZero(A.y_axis.x)
  /\ lastTriple = <<2, 0, 1>>

\* C5: after sort_singular_values the squared column norms of B are in descending order,
\* for every ordering of the three norms on entry.
C5_NormsDescending ==
  (pc = "done" /\ entry = "sort") =>
     /\ FGe(ColNorm2(B, "x"), ColNorm2(B, "y"))
     /\ FGe(ColNorm2(B, "y"), ColNorm2(B, "z"))
C5_Witness ==
  /\ pc = "done" /\ entry = "sort"
  /\ FLt(ColNorm2(B0, "x"), ColNorm2(B0, "y"))
  /\ FLt(ColNorm2(B0, "y"), ColNorm2(B0, "z"))
  /\ swaps = <<TRUE, TRUE, TRUE>>
  /\ FGt(ColNorm2(B, "x"), ColNorm2(B, "y"))
  /\ FGt(ColNorm2(B, "y"), ColNorm2(B, "z"))

\* the columns a step of the sorter works on, and the column it leaves alone
SortPair ==
  CASE pc = "sort01" -> <<"x", "y", "z">>
    [] pc = "sort02" -> <<"x", "z", "y">>
    [] pc = "sort12" -> <<"y", "z", "x">>
\* M1 is M0 with old column j in position i and the negated old column i in position j
IsNegSwap(M0, M1, i, j, k) ==
  \A a \in Axes : /\ M1[a][i] = M0[a][j]
                  /\ M1[a][j] = FNeg(M0[a][i])
                  /\ M1[a][k] = M0[a][k]
\* the signed permutations of three columns: column c is sign * (column src)
SignedPerms ==
  { p \in [Comps -> Comps \X {1, -1}] : \A c, d \in Comps : c # d => p[c][1] # p[d][1] }
ApplyPerm(p, M) ==
  [a \in Axes |-> [c \in Comps |-> IF p[c][2] = 1 THEN M[a][p[c][1]] ELSE FNeg(M[a][p[c][1]])]]
Det(M) ==
  FAdd(FSub(FMul(M.x_axis.x, FSub(FMul(M.y_axis.y, M.z_axis.z), FMul(M.y_axis.z, M.z_axis.y))),
            FMul(M.x_axis.y, FSub(FMul(M.y_axis.x, M.z_axis.z), FMul(M.y_axis.z, M.z_axis.x)))),
       FMul(M.x_axis.z, FSub(FMul(M.y_axis.x, M.z_axis.y), FMul(M.y_axis.y, M.z_axis.x))))
C8_Step ==
  pc \in {"sort01", "sort02", "sort12"} =>
     \/ B' = B /\ Vs' = Vs
     \/ /\ IsNegSwap(B, B', SortPair[1], SortPair[2], SortPair[3])
        /\ IsNegSwap(Vs, Vs', SortPair[1], SortPair[2], SortPair[3])
C8_After ==
  (pc = "done" /\ entry = "sort") =>
     /\ \E p \in SignedPerms : B = ApplyPerm(p, B0) /\ Vs = ApplyPerm(p, V0)
     /\ FEq(Det(B), Det(B0))
     /\ FEq(Det(Vs), Det(V0))
     /\ (FGe(ColNorm2(B0, "x"), ColNorm2(B0, "y")) /\ FGe(ColNorm2(B0, "y"), ColNorm2(B0, "z"))
           => B = B0 /\ Vs = V0)
\* C8: every swap the sorter performs puts the old column j in position i and the negated old
\* column i in position j, in B and in V alike; after the call B and V are the same signed
\* permutation of their original columns, their determinants are the original ones, and
\* both are unchanged when the norms were already descending.
C8_NegatedSwaps == [][C8_Step]_vars /\ []C8_After
C8_Witness ==
  /\ pc = "done" /\ entry = "sort"
  /\ swaps = <<TRUE, FALSE, TRUE>>
  /\ B # B0 /\ Vs # V0
  /\ ~IsZero(Det(B0))

\* C10: the three rotations of qr_decomposition zero the entries (1,0), (2,0) and (2,1) in
\* that order, each leaves the row outside its plane unchanged, an earlier zero survives
\* the later rotations, and the R returned is upper-triangular.
C10_UpperTriangular ==
  /\ (pc = "qr2" /\ entry = "qr") =>
        /\ NearZero(R.y_axis.x)
        /\ R.z_axis = B.z_axis
  /\ (pc = "qr3" /\ entry = "qr") =>
        /\ NearZero(B.z_axis.x)
        /\ B.y_axis = R.y_axis
  /\ (pc = "done" /\ entry = "qr") =>
        /\ NearZero(R.z_axis.y)
        /\ R.x_axis = B.x_axis
        /\ NearZero(R.y_axis.x)
        /\ NearZero(R.z_axis.x)
C10_Witness ==
  /\ pc = "done" /\ entry = "qr"
  /\ \A i \in 1..3 : ~IsZero(gs[i].sh)
  /\ ~IsZero(R.x_axis.y)

\* U * S * V^T within the tolerance of a, in each reading of the three matrices: glam's
\* (an axis is a column), the rotations' (an axis is a row), and the product test_svd forms
Reconstructs(o, a) ==
  \/ MatNear(mul_mat3(o.U, mul_mat3(o.S, transpose(o.V))), a)
  \/ MatNear(mul_mat3(transpose(o.V), mul_mat3(o.S, o.U)), a)
  \/ MatNear(mul_mat3(o.U, mul_mat3(o.S, o.V)), a)

\* C1: for every finite input A the matrices returned by svd satisfy U * S * V^T = A within
\* the tolerance, also when the sorter performs a swap.
C1_Reconstruction == pc = "done" => Reconstructs(out, A)

\* a >= b within the tolerance
GeTol(a, b) == FGe(FAdd(a, TOL), b)
\* C2: the diagonal of the S returned by svd is non-negative and non-increasing,
\* S00 >= S11 >= S22 >= 0, also for an input of negative determinant.
C2_DiagonalOrdered ==
  pc = "done" =>
     /\ GeTol(out.S.x_axis.x, out.S.y_axis.y)
     /\ GeTol(out.S.y_axis.y, out.S.z_axis.z)
     /\ GeTol(out.S.z_axis.z, ZERO(0))

\* V with every swap the sorter performed on B applied to the same columns
SortedV ==
  NegSwapCols(swaps[3], NegSwapCols(swaps[2], NegSwapCols(swaps[1], V, "x", "y"), "x", "z"),
              "y", "z")
\* C3: the V returned by svd is the sorted V: it has had every swap applied that the sorter
\* performed on the columns of B.
C3_SortedVReturned == pc = "done" => out.V = SortedV

IsSignedPerm(M) == \E p \in SignedPerms : MatNear(M, ApplyPerm(p, Mat3_IDENTITY))
\* C4: for A = diag(1,2,3), svd returns S = diag(3,2,1) within the tolerance, and U and V
\* are signed permutation matrices with which U * S * V^T gives back diag(1,2,3).
C4_DiagonalCase ==
  (pc = "done" /\ A = MatI(<<1, 0, 0>>, <<0, 2, 0>>, <<0, 0, 3>>)) =>
     /\ MatNear(out.S, MatI(<<3, 0, 0>>, <<0, 2, 0>>, <<0, 0, 1>>))
     /\ IsSignedPerm(out.U)
     /\ IsSignedPerm(out.V)
     /\ Reconstructs(out, MatI(<<1, 0, 0>>, <<0, 2, 0>>, <<0, 0, 3>>))

\* C6: the out-of-range access of the accumulator's accessor is the only fatal condition
\* of the exposed operations.
C6_OnlyAccessorPanics == panic # "none" => panic = "quat_index"

\* C7: approximate_givens_quaternion returns the normalised candidate exactly when
\* GEMMA * sh^2 < ch^2 and w is not a NaN, the pair (CSTAR, SSTAR) otherwise, and the pair
\* holds no NaN when m_10 is exactly zero.
C7_GivensSelection ==
  (pc = "done" /\ entry = "givens") =>
     LET g == GivensCandidate(S)
         w == rsqrt(GivensArg(g))
     IN /\ gout = IF GivensTest(g) /\ ~IsNaN(w)
                  THEN Givens(FMul(w, g.ch), FMul(w, g.sh))
                  ELSE Givens(CSTAR, SSTAR)
        /\ (IsZero(S.m_10) => ~IsNaN(gout.ch) /\ ~IsNaN(gout.sh))

====
